---- MODULE Spec2Model ----
(***************************************************************************)
(* Model of handtex/gui_utils.py: clamp_8bit, apply_color_effect and       *)
(* load_color_palette (the KDE colour-scheme parser that fills a           *)
(* QPalette).                                                              *)
(*                                                                         *)
(* Text is modelled as sequences of one-character strings, so that strip,  *)
(* startswith, split, int() and float() are computed the way the code      *)
(* computes them.  Python floats are IEEE-754 binary64 numbers; they are   *)
(* modelled exactly, as sign * m * 2^e with m a natural number of at most  *)
(* 53 bits held in 15-bit limbs, and every operation rounds its exact      *)
(* result to nearest, ties to even.                                        *)
(***************************************************************************)
EXTENDS Integers, Sequences, FiniteSets, TLC

(***************************************************************************)
(* Natural numbers of arbitrary size: little-endian sequences of limbs,    *)
(* without leading zero limbs; zero is the empty sequence.                 *)
(***************************************************************************)
LimbBits == 15

Base == 2^LimbBits

Precision == 53

Rest(a) == IF a = <<>> THEN <<>> ELSE Tail(a)

Limb0(a) == IF a = <<>> THEN 0 ELSE Head(a)

RECURSIVE Trim(_)
Trim(a) ==
    IF a = <<>> THEN a
    ELSE IF a[Len(a)] = 0 THEN Trim(SubSeq(a, 1, Len(a) - 1))
    ELSE a

RECURSIVE NatOfInt(_)
NatOfInt(n) == IF n = 0 THEN <<>> ELSE <<n % Base>> \o NatOfInt(n \div Base)

RECURSIVE IntOfNat(_)
IntOfNat(a) == IF a = <<>> THEN 0 ELSE Head(a) + Base * IntOfNat(Tail(a))

RECURSIVE AddCarry(_, _, _)
AddCarry(a, b, c) ==
    IF a = <<>> /\ b = <<>> THEN (IF c = 0 THEN <<>> ELSE <<c>>)
    ELSE LET s == Limb0(a) + Limb0(b) + c
         IN  <<s % Base>> \o AddCarry(Rest(a), Rest(b), s \div Base)

NatAdd(a, b) == AddCarry(a, b, 0)

\* a - b for a >= b
RECURSIVE SubBorrow(_, _, _)
SubBorrow(a, b, c) ==
    IF a = <<>> THEN <<>>
    ELSE LET d == Head(a) - Limb0(b) - c
         IN  IF d < 0 THEN <<d + Base>> \o SubBorrow(Tail(a), Rest(b), 1)
             ELSE <<d>> \o SubBorrow(Tail(a), Rest(b), 0)

NatSub(a, b) == Trim(SubBorrow(a, b, 0))

\* -1, 0, 1 as a < b, a = b, a > b
RECURSIVE CmpFrom(_, _, _)
CmpFrom(a, b, i) ==
    IF i = 0 THEN 0
    ELSE IF a[i] < b[i] THEN -1
    ELSE IF a[i] > b[i] THEN 1
    ELSE CmpFrom(a, b, i - 1)

NatCmp(a, b) ==
    IF Len(a) < Len(b) THEN -1
    ELSE IF Len(a) > Len(b) THEN 1
    ELSE CmpFrom(a, b, Len(a))

\* a * n + c for 0 <= n < Base
RECURSIVE MulLimb(_, _, _)
MulLimb(a, n, c) ==
    IF a = <<>> THEN (IF c = 0 THEN <<>> ELSE <<c>>)
    ELSE LET p == Head(a) * n + c
         IN  <<p % Base>> \o MulLimb(Tail(a), n, p \div Base)

RECURSIVE NatMul(_, _)
NatMul(a, b) ==
    IF a = <<>> \/ b = <<>> THEN <<>>
    ELSE Trim(NatAdd(MulLimb(a, Head(b), 0), <<0>> \o NatMul(a, Tail(b))))

\* <<quotient, remainder>> of a by 0 < n <= Base, from the top limb down
RECURSIVE DivLimb(_, _, _, _)
DivLimb(a, n, i, r) ==
    IF i = 0 THEN <<<<>>, r>>
    ELSE LET cur  == r * Base + a[i]
             rest == DivLimb(a, n, i - 1, cur % n)
         IN  <<rest[1] \o <<cur \div n>>, rest[2]>>

NatDivMod(a, n) ==
    LET qr == DivLimb(a, n, Len(a), 0) IN <<Trim(qr[1]), qr[2]>>

Zeros(k) == [j \in 1..k |-> 0]

NatShl(a, k) ==
    IF a = <<>> THEN <<>>
    ELSE Zeros(k \div LimbBits) \o MulLimb(a, 2^(k % LimbBits), 0)

NatShr(a, k) ==
    IF k \div LimbBits >= Len(a) THEN <<>>
    ELSE NatDivMod(SubSeq(a, (k \div LimbBits) + 1, Len(a)), 2^(k % LimbBits))[1]

RECURSIVE IntBits(_)
IntBits(n) == IF n = 0 THEN 0 ELSE 1 + IntBits(n \div 2)

BitLen(a) == IF a = <<>> THEN 0 ELSE LimbBits * (Len(a) - 1) + IntBits(a[Len(a)])

IsOdd(a) == Limb0(a) % 2 = 1

(***************************************************************************)
(* binary64.  A float is [neg, m, e] and stands for (-1)^neg * m * 2^e.    *)
(* RoundNat rounds the exact value (n + s) * 2^e, where 0 <= s < 1 is      *)
(* known only as "sticky" (s > 0), to 53 significant bits.                 *)
(***************************************************************************)
RoundNat(neg, n, e, sticky) ==
    LET len == BitLen(n) IN
    IF len <= Precision THEN [neg |-> neg, m |-> n, e |-> e]
    ELSE LET k    == len - Precision
             q    == NatShr(n, k)
             r    == NatSub(n, NatShl(q, k))
             c    == NatCmp(r, NatShl(<<1>>, k - 1))
             up   == c > 0 \/ (c = 0 /\ (sticky \/ IsOdd(q)))
         IN  [neg |-> neg, m |-> IF up THEN NatAdd(q, <<1>>) ELSE q, e |-> e + k]

FloatOfInt(n) ==
    [neg |-> n < 0, m |-> NatOfInt(IF n < 0 THEN -n ELSE n), e |-> 0]

FloatNeg(x) == [x EXCEPT !.neg = ~x.neg]

FloatAdd(x, y) ==
    LET e  == IF x.e < y.e THEN x.e ELSE y.e
        xm == NatShl(x.m, x.e - e)
        ym == NatShl(y.m, y.e - e)
    IN  IF x.neg = y.neg THEN RoundNat(x.neg, NatAdd(xm, ym), e, FALSE)
        ELSE IF NatCmp(xm, ym) >= 0 THEN RoundNat(x.neg, NatSub(xm, ym), e, FALSE)
        ELSE RoundNat(y.neg, NatSub(ym, xm), e, FALSE)

FloatSub(x, y) == FloatAdd(x, FloatNeg(y))

FloatMul(x, y) == RoundNat(x.neg # y.neg, NatMul(x.m, y.m), x.e + y.e, FALSE)

\* int(x): the integer part, truncated toward zero
FloatToInt(x) ==
    LET mag == IF x.e >= 0 THEN IntOfNat(NatShl(x.m, x.e))
               ELSE IntOfNat(NatShr(x.m, -x.e))
    IN  IF x.neg THEN -mag ELSE mag

(***************************************************************************)
(* Text: a string is a sequence of one-character strings.                  *)
(***************************************************************************)
Digits == <<"0", "1", "2", "3", "4", "5", "6", "7", "8", "9">>

IsDigit(c) == \E d \in 1..Len(Digits) : Digits[d] = c

DigitVal(c) == (CHOOSE d \in 1..Len(Digits) : Digits[d] = c) - 1

IsSpace(c) == c \in {" ", "\t", "\r"}

\* str.strip()
RECURSIVE StripLeft(_)
StripLeft(s) ==
    IF s # <<>> /\ IsSpace(Head(s)) THEN StripLeft(Tail(s)) ELSE s

RECURSIVE StripRight(_)
StripRight(s) ==
    IF s # <<>> /\ IsSpace(s[Len(s)]) THEN StripRight(SubSeq(s, 1, Len(s) - 1)) ELSE s

Strip(s) == StripRight(StripLeft(s))

\* str.startswith / str.endswith for a one-character argument
StartsWith(s, c) == s # <<>> /\ Head(s) = c

EndsWith(s, c) == s # <<>> /\ s[Len(s)] = c

\* c in s
Contains(s, c) == \E k \in 1..Len(s) : s[k] = c

\* s.index(c) + 1 for s containing c
RECURSIVE IndexFrom(_, _, _)
IndexFrom(s, c, k) == IF s[k] = c THEN k ELSE IndexFrom(s, c, k + 1)

IndexOf(s, c) == IndexFrom(s, c, 1)

\* s.split(c): every field, the empty ones included
RECURSIVE Split(_, _)
Split(s, c) ==
    IF ~Contains(s, c) THEN <<s>>
    ELSE LET k == IndexOf(s, c)
         IN  <<SubSeq(s, 1, k - 1)>> \o Split(SubSeq(s, k + 1, Len(s)), c)

\* map(str.strip, s.split(c, 1)) for s containing c
SplitOnce(s, c) ==
    LET k == IndexOf(s, c)
    IN  <<Strip(SubSeq(s, 1, k - 1)), Strip(SubSeq(s, k + 1, Len(s)))>>

Unsigned(s) == IF StartsWith(s, "-") \/ StartsWith(s, "+") THEN Tail(s) ELSE s

AllDigits(s) == s # <<>> /\ \A k \in 1..Len(s) : IsDigit(s[k])

RECURSIVE DigitsToInt(_, _)
DigitsToInt(s, acc) ==
    IF s = <<>> THEN acc ELSE DigitsToInt(Tail(s), 10 * acc + DigitVal(Head(s)))

RECURSIVE DigitsToNat(_, _)
DigitsToNat(s, acc) ==
    IF s = <<>> THEN acc ELSE DigitsToNat(Tail(s), MulLimb(acc, 10, DigitVal(Head(s))))

\* int(s): surrounding whitespace, an optional sign, decimal digits; anything else
\* raises ValueError (ok = FALSE)
ParseInt(s) ==
    LET t == Strip(s)
        u == Unsigned(t)
    IN  IF AllDigits(u)
        THEN [ok |-> TRUE,
              val |-> IF StartsWith(t, "-") THEN -DigitsToInt(u, 0) ELSE DigitsToInt(u, 0)]
        ELSE [ok |-> FALSE, val |-> 0]

\* n divided k times by ten: <<quotient, some remainder was non-zero>>
RECURSIVE DivTens(_, _, _)
DivTens(n, k, sticky) ==
    IF k = 0 THEN <<n, sticky>>
    ELSE LET qr == NatDivMod(n, 10) IN DivTens(qr[1], k - 1, sticky \/ qr[2] # 0)

\* the binary64 nearest to num / 10^d
DecimalToFloat(neg, num, d) ==
    LET k  == 64 + 4 * d
        qs == DivTens(NatShl(num, k), d, FALSE)
    IN  RoundNat(neg, qs[1], -k, qs[2])

\* float(s): surrounding whitespace, an optional sign, digits with an optional
\* fraction; anything else raises ValueError (ok = FALSE)
ParseFloat(s) ==
    LET t    == Strip(s)
        u    == Unsigned(t)
        neg  == StartsWith(t, "-")
        ip   == IF Contains(u, ".") THEN SubSeq(u, 1, IndexOf(u, ".") - 1) ELSE u
        fp   == IF Contains(u, ".") THEN SubSeq(u, IndexOf(u, ".") + 1, Len(u)) ELSE <<>>
        good == /\ \A k \in 1..Len(ip) : IsDigit(ip[k])
                /\ \A k \in 1..Len(fp) : IsDigit(fp[k])
                /\ ip \o fp # <<>>
    IN  IF good
        THEN [ok |-> TRUE, val |-> DecimalToFloat(neg, DigitsToNat(ip \o fp, <<>>), Len(fp))]
        ELSE [ok |-> FALSE, val |-> FloatOfInt(0)]

(***************************************************************************)
(* clamp_8bit and apply_color_effect.  A colour is <<r, g, b>>.            *)
(***************************************************************************)
Min(a, b) == IF a < b THEN a ELSE b

Max(a, b) == IF a > b THEN a ELSE b

clamp_8bit(value) == Max(0, Min(value, 255))

\* BlendChannel with the two weights exchanged
MutBlendChannelSwapped(source, effect_base, contrast_amount) ==
    FloatToInt(FloatAdd(
        FloatMul(FloatOfInt(source), contrast_amount),
        FloatMul(FloatOfInt(effect_base), FloatSub(FloatOfInt(1), contrast_amount))))

\* int(source * (1 - contrast_amount) + effect_base * contrast_amount), one channel
BlendChannel(source, effect_base, contrast_amount) ==
    FloatToInt(FloatAdd(
        FloatMul(FloatOfInt(source), FloatSub(FloatOfInt(1), contrast_amount)),
        FloatMul(FloatOfInt(effect_base), contrast_amount)))

apply_color_effect(source, effect_base, contrast_amount) ==
    [ch \in 1..3 |-> clamp_8bit(BlendChannel(source[ch], effect_base[ch], contrast_amount))]

(***************************************************************************)
(* The characters of the string literals of the code and of the theme      *)
(* lines the model reads.                                                  *)
(***************************************************************************)
Chars ==
    ("[ColorEffects:Disabled]" :> <<"[", "C", "o", "l", "o", "r", "E", "f", "f", "e", "c", "t", "s", ":", "D", "i", "s", "a", "b", "l", "e", "d", "]">>)
    @@ ("[Colors:Button]" :> <<"[", "C", "o", "l", "o", "r", "s", ":", "B", "u", "t", "t", "o", "n", "]">>)
    @@ ("[Colors:Window]" :> <<"[", "C", "o", "l", "o", "r", "s", ":", "W", "i", "n", "d", "o", "w", "]">>)
    @@ ("[General]" :> <<"[", "G", "e", "n", "e", "r", "a", "l", "]">>)
    @@ ("Color=100,100,100" :> <<"C", "o", "l", "o", "r", "=", "1", "0", "0", ",", "1", "0", "0", ",", "1", "0", "0">>)
    @@ ("Color = 9, 8, 7" :> <<"C", "o", "l", "o", "r", " ", "=", " ", "9", ",", " ", "8", ",", " ", "7">>)
    @@ ("ContrastAmount=0.5" :> <<"C", "o", "n", "t", "r", "a", "s", "t", "A", "m", "o", "u", "n", "t", "=", "0", ".", "5">>)
    @@ ("BackgroundNormal=200,200,200" :> <<"B", "a", "c", "k", "g", "r", "o", "u", "n", "d", "N", "o", "r", "m", "a", "l", "=", "2", "0", "0", ",", "2", "0", "0", ",", "2", "0", "0">>)
    @@ ("ForegroundNormal = 30, 30, 31" :> <<"F", "o", "r", "e", "g", "r", "o", "u", "n", "d", "N", "o", "r", "m", "a", "l", " ", "=", " ", "3", "0", ",", " ", "3", "0", ",", " ", "3", "1">>)
    @@ ("BackgroundNormal=200,200" :> <<"B", "a", "c", "k", "g", "r", "o", "u", "n", "d", "N", "o", "r", "m", "a", "l", "=", "2", "0", "0", ",", "2", "0", "0">>)
    @@ ("ForegroundNormal=1,2,x" :> <<"F", "o", "r", "e", "g", "r", "o", "u", "n", "d", "N", "o", "r", "m", "a", "l", "=", "1", ",", "2", ",", "x">>)
    @@ ("0.0" :> <<"0", ".", "0">>)
    @@ ("1.0" :> <<"1", ".", "0">>)
    @@ ("0.3" :> <<"0", ".", "3">>)
    @@ ("0.5" :> <<"0", ".", "5">>)
    @@ ("0.01" :> <<"0", ".", "0", "1">>)
    @@ ("1.5" :> <<"1", ".", "5">>)
    @@ ("-0.5" :> <<"-", "0", ".", "5">>)
    @@ ("Colors:Button" :> <<"C", "o", "l", "o", "r", "s", ":", "B", "u", "t", "t", "o", "n">>)
    @@ ("Colors:View" :> <<"C", "o", "l", "o", "r", "s", ":", "V", "i", "e", "w">>)
    @@ ("Colors:Selection" :> <<"C", "o", "l", "o", "r", "s", ":", "S", "e", "l", "e", "c", "t", "i", "o", "n">>)
    @@ ("Colors:Tooltip" :> <<"C", "o", "l", "o", "r", "s", ":", "T", "o", "o", "l", "t", "i", "p">>)
    @@ ("Colors:Window" :> <<"C", "o", "l", "o", "r", "s", ":", "W", "i", "n", "d", "o", "w">>)
    @@ ("BackgroundNormal" :> <<"B", "a", "c", "k", "g", "r", "o", "u", "n", "d", "N", "o", "r", "m", "a", "l">>)
    @@ ("ForegroundNormal" :> <<"F", "o", "r", "e", "g", "r", "o", "u", "n", "d", "N", "o", "r", "m", "a", "l">>)
    @@ ("ForegroundActive" :> <<"F", "o", "r", "e", "g", "r", "o", "u", "n", "d", "A", "c", "t", "i", "v", "e">>)
    @@ ("BackgroundAlternate" :> <<"B", "a", "c", "k", "g", "r", "o", "u", "n", "d", "A", "l", "t", "e", "r", "n", "a", "t", "e">>)
    @@ ("ForegroundLink" :> <<"F", "o", "r", "e", "g", "r", "o", "u", "n", "d", "L", "i", "n", "k">>)
    @@ ("ForegroundVisited" :> <<"F", "o", "r", "e", "g", "r", "o", "u", "n", "d", "V", "i", "s", "i", "t", "e", "d">>)
    @@ ("ForegroundInactive" :> <<"F", "o", "r", "e", "g", "r", "o", "u", "n", "d", "I", "n", "a", "c", "t", "i", "v", "e">>)
    @@ ("Color" :> <<"C", "o", "l", "o", "r">>)
    @@ ("ContrastAmount" :> <<"C", "o", "n", "t", "r", "a", "s", "t", "A", "m", "o", "u", "n", "t">>)

\* Python's None, where a string is expected: equal to no string
None == <<"None">>

(***************************************************************************)
(* section_role_mapping: KDE colour keys to QPalette roles.                *)
(***************************************************************************)
section_role_mapping ==
    (Chars["Colors:Button"] :>
        (Chars["BackgroundNormal"] :> "Button"
         @@ Chars["ForegroundNormal"] :> "ButtonText"
         @@ Chars["ForegroundActive"] :> "BrightText"))
    @@ (Chars["Colors:View"] :>
        (Chars["BackgroundNormal"] :> "Base"
         @@ Chars["BackgroundAlternate"] :> "AlternateBase"
         @@ Chars["ForegroundNormal"] :> "Text"
         @@ Chars["ForegroundLink"] :> "Link"
         @@ Chars["ForegroundVisited"] :> "LinkVisited"
         @@ Chars["ForegroundInactive"] :> "PlaceholderText"))
    @@ (Chars["Colors:Selection"] :>
        (Chars["BackgroundNormal"] :> "Highlight"
         @@ Chars["ForegroundNormal"] :> "HighlightedText"))
    @@ (Chars["Colors:Tooltip"] :>
        (Chars["BackgroundNormal"] :> "ToolTipBase"
         @@ Chars["ForegroundNormal"] :> "ToolTipText"))
    @@ (Chars["Colors:Window"] :>
        (Chars["BackgroundNormal"] :> "Window"
         @@ Chars["ForegroundNormal"] :> "WindowText"))

\* section_role_mapping.get(section, {}).get(key, None)
RoleOf(section, key) ==
    IF section \in DOMAIN section_role_mapping
       /\ key \in DOMAIN section_role_mapping[section]
    THEN section_role_mapping[section][key]
    ELSE "None"

SectionKeys ==
    UNION {{<<s, k>> : k \in DOMAIN section_role_mapping[s]} : s \in DOMAIN section_role_mapping}

MappedRoles == {section_role_mapping[sk[1]][sk[2]] : sk \in SectionKeys}

(***************************************************************************)
(* QColor and QPalette.  A palette is a function from <<group, role>> to   *)
(* <<r, g, b>>, defined on the entries that hold a valid colour; an entry  *)
(* without one reads as the invalid QColor, whose channels are 0.          *)
(***************************************************************************)
Groups == {"Normal", "Inactive", "Disabled"}

DerivedRoles == {"Light", "Dark", "Midlight", "Mid", "Shadow"}

\* r, g, b = map(int, value.split(",")): ValueError (ok = FALSE) unless the value
\* is exactly three integers
ParseRGB(value) ==
    LET fields == Split(value, ",")
        ints   == [k \in 1..Len(fields) |-> ParseInt(fields[k])]
    IN  IF Len(fields) = 3 /\ \A k \in 1..3 : ints[k].ok
        THEN [ok |-> TRUE, val |-> [k \in 1..3 |-> ints[k].val]]
        ELSE [ok |-> FALSE, val |-> <<0, 0, 0>>]

\* palette.setColor(group, role, color)
setColor(p, group, role, rgb) == (<<group, role>> :> rgb) @@ p

\* palette.setColor(role, color): every group; an invalid colour leaves the role invalid
setColorAll(p, role, c) ==
    IF c.valid THEN [gr \in (DOMAIN p) \cup (Groups \X {role}) |->
                        IF gr[2] = role THEN c.rgb ELSE p[gr]]
    ELSE p

\* palette.color(role): the colour of the current (Normal) group
color(p, role) ==
    IF <<"Normal", role>> \in DOMAIN p
    THEN [valid |-> TRUE, rgb |-> p[<<"Normal", role>>]]
    ELSE [valid |-> FALSE, rgb |-> <<0, 0, 0>>]

\* QColor.lighter(150) and QColor.darker(150) are Qt's (an HSV computation that is
\* not part of this program): any valid colour for a valid one, invalid for invalid
QtShades == {<<255, 255, 255>>, <<90, 91, 92>>}

lighter(c) == IF c.valid THEN {[valid |-> TRUE, rgb |-> x] : x \in QtShades} ELSE {c}

darker(c) == IF c.valid THEN {[valid |-> TRUE, rgb |-> x] : x \in QtShades} ELSE {c}

\* QColor((a.red() + b.red()) // 2, ...)
Average(a, b) == [valid |-> TRUE, rgb |-> [ch \in 1..3 |-> (a.rgb[ch] + b.rgb[ch]) \div 2]]

(***************************************************************************)
(* load_color_palette, one loop iteration at a time.                       *)
(***************************************************************************)
DefaultDisabledColor == <<128, 128, 128>>

\* a default contrast amount of 1.0
MutDefaultContrastAmount == FloatOfInt(1)

DefaultContrastAmount == FloatOfInt(0)

\* DisabledLine without the section boundary: a "[" line does not end the section
MutDisabledLineIgnoresBoundary(st, raw) ==
    LET line == Strip(raw) IN
    IF line = Chars["[ColorEffects:Disabled]"] THEN [st EXCEPT !.in_section = TRUE]
    ELSE IF ~st.in_section THEN st
    ELSE IF ~Contains(line, "=") THEN st
    ELSE LET kv  == SplitOnce(line, "=")
             rgb == ParseRGB(kv[2])
             amt == ParseFloat(kv[2])
         IN  IF kv[1] = Chars["Color"]
             THEN IF rgb.ok THEN [st EXCEPT !.color = rgb.val]
                  ELSE [st EXCEPT !.error = TRUE]
             ELSE IF kv[1] = Chars["ContrastAmount"]
             THEN IF amt.ok THEN [st EXCEPT !.amount = amt.val]
                  ELSE [st EXCEPT !.error = TRUE]
             ELSE st

\* DisabledLine without the break: the loop goes on after the section's end
MutDisabledLineNoBreak(st, raw) ==
    LET line == Strip(raw) IN
    IF line = Chars["[ColorEffects:Disabled]"] THEN [st EXCEPT !.in_section = TRUE]
    ELSE IF ~st.in_section THEN st
    ELSE IF StartsWith(line, "[") THEN [st EXCEPT !.in_section = FALSE]
    ELSE IF ~Contains(line, "=") THEN st
    ELSE LET kv  == SplitOnce(line, "=")
             rgb == ParseRGB(kv[2])
             amt == ParseFloat(kv[2])
         IN  IF kv[1] = Chars["Color"]
             THEN IF rgb.ok THEN [st EXCEPT !.color = rgb.val]
                  ELSE [st EXCEPT !.error = TRUE]
             ELSE IF kv[1] = Chars["ContrastAmount"]
             THEN IF amt.ok THEN [st EXCEPT !.amount = amt.val]
                  ELSE [st EXCEPT !.error = TRUE]
             ELSE st

\* One iteration of the first loop on the locals
\* st = [color, amount, in_section, stop, error]; stop is the break
DisabledLine(st, raw) ==
    LET line == Strip(raw) IN
    IF line = Chars["[ColorEffects:Disabled]"] THEN [st EXCEPT !.in_section = TRUE]
    ELSE IF ~st.in_section THEN st
    ELSE IF StartsWith(line, "[") THEN [st EXCEPT !.in_section = FALSE, !.stop = TRUE]
    ELSE IF ~Contains(line, "=") THEN st
    ELSE LET kv  == SplitOnce(line, "=")
             rgb == ParseRGB(kv[2])
             amt == ParseFloat(kv[2])
         IN  IF kv[1] = Chars["Color"]
             THEN IF rgb.ok THEN [st EXCEPT !.color = rgb.val]
                  ELSE [st EXCEPT !.error = TRUE]
             ELSE IF kv[1] = Chars["ContrastAmount"]
             THEN IF amt.ok THEN [st EXCEPT !.amount = amt.val]
                  ELSE [st EXCEPT !.error = TRUE]
             ELSE st

\* RoleLine that sets the Disabled colour only when it differs from the Normal one
MutRoleLineSkipsEqualDisabled(st, amount, raw) ==
    LET line == Strip(raw) IN
    IF StartsWith(line, "[") /\ EndsWith(line, "]")
    THEN [st EXCEPT !.section = SubSeq(line, 2, Len(line) - 1)]
    ELSE IF ~Contains(line, "=") THEN st
    ELSE LET kv   == SplitOnce(line, "=")
             role == RoleOf(st.section, kv[1])
             rgb  == ParseRGB(kv[2])
             dis  == apply_color_effect(rgb.val, st.color, amount)
             both == setColor(setColor(st.palette, "Normal", role, rgb.val),
                              "Inactive", role, rgb.val)
         IN  IF role = "None" THEN st
             ELSE IF ~rgb.ok THEN [st EXCEPT !.error = TRUE]
             ELSE [st EXCEPT
                     !.palette = IF dis = rgb.val THEN both
                                 ELSE setColor(both, "Disabled", role, dis),
                     !.color = dis]

\* RoleLine that skips a recognized line whose value does not parse
MutRoleLineLenient(st, amount, raw) ==
    LET line == Strip(raw) IN
    IF StartsWith(line, "[") /\ EndsWith(line, "]")
    THEN [st EXCEPT !.section = SubSeq(line, 2, Len(line) - 1)]
    ELSE IF ~Contains(line, "=") THEN st
    ELSE LET kv   == SplitOnce(line, "=")
             role == RoleOf(st.section, kv[1])
             rgb  == ParseRGB(kv[2])
             dis  == apply_color_effect(rgb.val, st.color, amount)
         IN  IF role = "None" \/ ~rgb.ok THEN st
             ELSE [st EXCEPT
                     !.palette = setColor(setColor(setColor(st.palette,
                                     "Normal", role, rgb.val),
                                     "Inactive", role, rgb.val),
                                     "Disabled", role, dis),
                     !.color = dis]

\* RoleLine that parses the value before it looks the key up
MutRoleLineParsesFirst(st, amount, raw) ==
    LET line == Strip(raw) IN
    IF StartsWith(line, "[") /\ EndsWith(line, "]")
    THEN [st EXCEPT !.section = SubSeq(line, 2, Len(line) - 1)]
    ELSE IF ~Contains(line, "=") THEN st
    ELSE LET kv   == SplitOnce(line, "=")
             role == RoleOf(st.section, kv[1])
             rgb  == ParseRGB(kv[2])
             dis  == apply_color_effect(rgb.val, st.color, amount)
         IN  IF ~rgb.ok THEN [st EXCEPT !.error = TRUE]
             ELSE IF role = "None" THEN st
             ELSE [st EXCEPT
                     !.palette = setColor(setColor(setColor(st.palette,
                                     "Normal", role, rgb.val),
                                     "Inactive", role, rgb.val),
                                     "Disabled", role, dis),
                     !.color = dis]

\* One iteration of the second loop on the locals
\* st = [section, palette, color, error]; color is the variable disabled_color
RoleLine(st, amount, raw) ==
    LET line == Strip(raw) IN
    IF StartsWith(line, "[") /\ EndsWith(line, "]")
    THEN [st EXCEPT !.section = SubSeq(line, 2, Len(line) - 1)]
    ELSE IF ~Contains(line, "=") THEN st
    ELSE LET kv   == SplitOnce(line, "=")
             role == RoleOf(st.section, kv[1])
             rgb  == ParseRGB(kv[2])
             dis  == apply_color_effect(rgb.val, st.color, amount)
         IN  IF role = "None" THEN st
             ELSE IF ~rgb.ok THEN [st EXCEPT !.error = TRUE]
             ELSE [st EXCEPT
                     !.palette = setColor(setColor(setColor(st.palette,
                                     "Normal", role, rgb.val),
                                     "Inactive", role, rgb.val),
                                     "Disabled", role, dis),
                     !.color = dis]

\* The fallback calculations, given what lighter(150) and darker(150) returned
FallbackLight(p, light) ==
    IF ~color(p, "Light").valid THEN setColorAll(p, "Light", light) ELSE p

FallbackDark(p, dark) ==
    IF ~color(p, "Dark").valid THEN setColorAll(p, "Dark", dark) ELSE p

\* FallbackMidlight without the isValid test
MutFallbackMidlightAlways(p) ==
    setColorAll(p, "Midlight", Average(color(p, "Light"), color(p, "Button")))

FallbackMidlight(p) ==
    IF ~color(p, "Midlight").valid
    THEN setColorAll(p, "Midlight", Average(color(p, "Light"), color(p, "Button")))
    ELSE p

FallbackMid(p) ==
    IF ~color(p, "Mid").valid
    THEN setColorAll(p, "Mid", Average(color(p, "Dark"), color(p, "Button")))
    ELSE p

FallbackShadow(p) ==
    IF ~color(p, "Shadow").valid
    THEN setColorAll(p, "Shadow", [valid |-> TRUE, rgb |-> <<0, 0, 0>>])
    ELSE p

Fallbacks(p, light, dark) ==
    FallbackShadow(FallbackMid(FallbackMidlight(FallbackDark(FallbackLight(p, light), dark))))

(***************************************************************************)
(* Inputs: theme texts of at most MaxLines lines, drawn from a few lines   *)
(* of the KDE colour-scheme format.                                        *)
(***************************************************************************)
MaxLines == 4

LinesEffect ==
    {"[ColorEffects:Disabled]", "[Colors:Button]", "Color=100,100,100",
     "Color = 9, 8, 7", "ContrastAmount=0.5", "BackgroundNormal=200,200,200"}

LinesRoles ==
    {"[Colors:Button]", "[Colors:Window]", "BackgroundNormal=200,200,200",
     "ForegroundNormal = 30, 30, 31", "BackgroundNormal=200,200",
     "ForegroundNormal=1,2,x"}

LinesFallback ==
    {"[Colors:Button]", "[Colors:Window]", "BackgroundNormal=200,200,200",
     "ForegroundNormal = 30, 30, 31"}

LinesIgnore ==
    {"[ColorEffects:Disabled]", "[General]", "[Colors:Button]",
     "ContrastAmount=0.5", "BackgroundNormal=200,200,200"}

Texts(lines, max) == UNION {[1..n -> lines] : n \in 0..max}

ButtonSection == <<"[Colors:Button]", "BackgroundNormal=200,200,200">>

\* The files read: every text of at most MaxLines lines, alone and followed by
\* a Button section
Files(lines) ==
    LET texts == Texts(lines, MaxLines) IN texts \cup {t \o ButtonSection : t \in texts}

\* What QPalette() holds before the load: no colour, or the application's colour
\* for some of the derived roles
AppColor == <<7, 7, 7>>

PresetPalette(roles) == [gr \in Groups \X roles |-> AppColor]

Presets == {{}, DerivedRoles} \cup {{r} : r \in DerivedRoles}

\* Arguments of apply_color_effect: every channel value, a few parsed amounts
MaxChannel == 255

SourceColors == {<<c, (c + 85) % (MaxChannel + 1), MaxChannel - c>> : c \in 0..MaxChannel}

EffectColors == {<<3, 100, 255>>, <<0, 128, 201>>}

AmountTexts == {"0.0", "1.0", "0.3", "0.5", "0.01", "1.5", "-0.5"}

NoCall == [source |-> <<0, 0, 0>>, effect_base |-> <<0, 0, 0>>,
           contrast_amount |-> FloatOfInt(0), result |-> <<0, 0, 0>>]

(***************************************************************************)
(* The state machine.                                                      *)
(***************************************************************************)
VARIABLES
    readable,                  \* whether file.open succeeds
    content,                   \* content.split("\n"), each line a key of Chars
    pc,                        \* "open", "disabled_pass", "role_pass", "returned",
                               \* "raised"; "call", "called" for apply_color_effect alone
    i,                         \* the index of the line the running loop is at
    disabled_color,
    disabled_contrast_amount,
    in_disabled_section,
    section,
    palette,
    call                       \* a call of apply_color_effect: its arguments and result

vars == <<readable, content, pc, i, disabled_color, disabled_contrast_amount,
          in_disabled_section, section, palette, call>>

InitLocals ==
    /\ i = 1
    /\ disabled_color = DefaultDisabledColor
    /\ disabled_contrast_amount = DefaultContrastAmount
    /\ in_disabled_section = FALSE
    /\ section = None

InitLoad(texts, presets) ==
    /\ pc = "open"
    /\ InitLocals
    /\ call = NoCall
    /\ \E roles \in presets : palette = PresetPalette(roles)
    /\ \/ readable = FALSE /\ content = <<>>
       \/ readable = TRUE /\ content \in texts

\* file.open(...) fails: raise ValueError
OpenFails ==
    /\ pc = "open" /\ ~readable
    /\ pc' = "raised"
    /\ UNCHANGED <<readable, content, i, disabled_color, disabled_contrast_amount,
                   in_disabled_section, section, palette, call>>

Open ==
    /\ pc = "open" /\ readable
    /\ pc' = "disabled_pass"
    /\ UNCHANGED <<readable, content, i, disabled_color, disabled_contrast_amount,
                   in_disabled_section, section, palette, call>>

\* One iteration of "for line in content.split('\n')", the disabled colour parameters
ScanDisabled ==
    /\ pc = "disabled_pass" /\ i <= Len(content)
    /\ LET st == DisabledLine([color |-> disabled_color,
                               amount |-> disabled_contrast_amount,
                               in_section |-> in_disabled_section,
                               stop |-> FALSE, error |-> FALSE],
                              Chars[content[i]])
       IN  /\ disabled_color' = st.color
           /\ disabled_contrast_amount' = st.amount
           /\ in_disabled_section' = st.in_section
           /\ pc' = IF st.error THEN "raised"
                    ELSE IF st.stop THEN "role_pass" ELSE "disabled_pass"
           /\ i' = IF st.error THEN i ELSE IF st.stop THEN 1 ELSE i + 1
    /\ UNCHANGED <<readable, content, section, palette, call>>

\* The first loop is exhausted
EndDisabled ==
    /\ pc = "disabled_pass" /\ i > Len(content)
    /\ pc' = "role_pass"
    /\ i' = 1
    /\ UNCHANGED <<readable, content, disabled_color, disabled_contrast_amount,
                   in_disabled_section, section, palette, call>>

\* One iteration of the second loop
ScanRoles ==
    /\ pc = "role_pass" /\ i <= Len(content)
    /\ LET st == RoleLine([section |-> section, palette |-> palette,
                           color |-> disabled_color, error |-> FALSE],
                          disabled_contrast_amount, Chars[content[i]])
       IN  /\ section' = st.section
           /\ palette' = st.palette
           /\ disabled_color' = st.color
           /\ pc' = IF st.error THEN "raised" ELSE "role_pass"
           /\ i' = IF st.error THEN i ELSE i + 1
    /\ UNCHANGED <<readable, content, disabled_contrast_amount, in_disabled_section,
                   call>>

\* The second loop is exhausted: the fallback calculations and "return palette"
FallbackAndReturn ==
    /\ pc = "role_pass" /\ i > Len(content)
    /\ \E light \in lighter(color(palette, "Button")) :
       \E dark \in darker(color(palette, "Window")) :
           palette' = Fallbacks(palette, light, dark)
    /\ pc' = "returned"
    /\ UNCHANGED <<readable, content, i, disabled_color, disabled_contrast_amount,
                   in_disabled_section, section, call>>

Next ==
    \/ OpenFails
    \/ Open
    \/ ScanDisabled
    \/ EndDisabled
    \/ ScanRoles
    \/ FallbackAndReturn

\* load_color_palette on a fresh palette
Init == InitLoad(Files(LinesEffect), {{}})

Spec == Init /\ [][Next]_vars

InitRoles == InitLoad(Files(LinesRoles), {{}})

SpecRoles == InitRoles /\ [][Next]_vars

InitIgnore == InitLoad(Files(LinesIgnore), {{}})

SpecIgnore == InitIgnore /\ [][Next]_vars

\* load_color_palette where the application already supplies derived roles
InitFallback == InitLoad(Files(LinesFallback), Presets)

SpecFallback == InitFallback /\ [][Next]_vars

\* apply_color_effect alone
InitBlend ==
    /\ pc = "call"
    /\ InitLocals
    /\ readable = FALSE /\ content = <<>>
    /\ palette = PresetPalette({})
    /\ \E s \in SourceColors, t \in AmountTexts : \E e \in EffectColors \cup {s} :
          call = [source |-> s, effect_base |-> e,
                  contrast_amount |-> ParseFloat(Chars[t]).val, result |-> <<0, 0, 0>>]

ApplyColorEffect ==
    /\ pc = "call"
    /\ call' = [call EXCEPT !.result =
                    apply_color_effect(call.source, call.effect_base, call.contrast_amount)]
    /\ pc' = "called"
    /\ UNCHANGED <<readable, content, i, disabled_color, disabled_contrast_amount,
                   in_disabled_section, section, palette>>

NextBlend == ApplyColorEffect

SpecBlend == InitBlend /\ [][NextBlend]_vars
(***************************************************************************)
(* The theme text seen as a whole: what a line is and which section it     *)
(* lies under, and the two loops run to their end.                         *)
(***************************************************************************)
LineAt(text, k) == Strip(Chars[text[k]])

IsHeader(line) == StartsWith(line, "[") /\ EndsWith(line, "]")

HeaderName(line) == SubSeq(line, 2, Len(line) - 1)

IsDisabledHeader(line) == line = Chars["[ColorEffects:Disabled]"]

\* a key=value line: it holds "=" and does not open with "["
IsKeyLine(line) == ~StartsWith(line, "[") /\ Contains(line, "=")

KeyOf(line) == SplitOnce(line, "=")[1]

ValueOf(line) == SplitOnce(line, "=")[2]

Maximum(S) == CHOOSE x \in S : \A y \in S : y <= x

\* the index of the last header line before line k, 0 when there is none
LastHeaderBefore(text, k) ==
    LET hs == {j \in 1..(k - 1) : IsHeader(LineAt(text, j))}
    IN  IF hs = {} THEN 0 ELSE Maximum(hs)

\* the section line k lies under
SectionAt(text, k) ==
    IF LastHeaderBefore(text, k) = 0 THEN None
    ELSE HeaderName(LineAt(text, LastHeaderBefore(text, k)))

\* the role a line sets, "None" for a line that sets none
RoleAt(text, k) ==
    IF IsKeyLine(LineAt(text, k))
    THEN RoleOf(SectionAt(text, k), KeyOf(LineAt(text, k)))
    ELSE "None"

RoleLines(text) == {k \in 1..Len(text) : RoleAt(text, k) # "None"}

\* the lines with the given key whose most recent header is [ColorEffects:Disabled]
DisabledSectionLines(text, key) ==
    {k \in 1..Len(text) :
        /\ IsKeyLine(LineAt(text, k))
        /\ KeyOf(LineAt(text, k)) = Chars[key]
        /\ LastHeaderBefore(text, k) # 0
        /\ IsDisabledHeader(LineAt(text, LastHeaderBefore(text, k)))}

\* the lines of the first [ColorEffects:Disabled] section: after its first header
\* and before the first later line that opens with "[" and is not that header
FirstDisabledSection(text) ==
    LET hs == {k \in 1..Len(text) : IsDisabledHeader(LineAt(text, k))} IN
    IF hs = {} THEN {}
    ELSE LET h == CHOOSE x \in hs : \A y \in hs : x <= y
         IN  {k \in (h + 1)..Len(text) :
                \A j \in (h + 1)..k :
                    StartsWith(LineAt(text, j), "[") => IsDisabledHeader(LineAt(text, j))}

FirstSectionLines(text, key) ==
    {k \in FirstDisabledSection(text) :
        IsKeyLine(LineAt(text, k)) /\ KeyOf(LineAt(text, k)) = Chars[key]}

\* the colour the last line of ks sets, the default when ks is empty
LastColor(text, ks) ==
    IF ks = {} THEN DefaultDisabledColor
    ELSE ParseRGB(ValueOf(LineAt(text, Maximum(ks)))).val

LastAmount(text, ks) ==
    IF ks = {} THEN DefaultContrastAmount
    ELSE ParseFloat(ValueOf(LineAt(text, Maximum(ks)))).val

\* the first loop, run from line k to its end
RECURSIVE DisabledPass(_, _, _)
DisabledPass(text, k, st) ==
    IF k > Len(text) \/ st.stop \/ st.error THEN st
    ELSE DisabledPass(text, k + 1, DisabledLine(st, Chars[text[k]]))

\* the second loop, run from line k to its end
RECURSIVE RolePass(_, _, _, _)
RolePass(text, k, st, amount) ==
    IF k > Len(text) \/ st.error THEN st
    ELSE RolePass(text, k + 1, RoleLine(st, amount, Chars[text[k]]), amount)

\* the DisabledEffectSpec of a text
EffectSpec(text) ==
    DisabledPass(text, 1, [color |-> DefaultDisabledColor, amount |-> DefaultContrastAmount,
                           in_section |-> FALSE, stop |-> FALSE, error |-> FALSE])

\* both loops on a fresh palette: [error, palette]
Parse(text) ==
    LET d == EffectSpec(text)
        r == RolePass(text, 1, [section |-> None, palette |-> PresetPalette({}),
                                color |-> d.color, error |-> FALSE], d.amount)
    IN  IF d.error THEN [error |-> TRUE, palette |-> PresetPalette({})]
        ELSE [error |-> r.error, palette |-> r.palette]

HasAllGroups(p, role) == \A g \in Groups : <<g, role>> \in DOMAIN p

\* x = n for a float x and an integer n
FloatIsInt(x, n) == FloatSub(x, FloatOfInt(n)).m = <<>>

\* 0 <= x <= 1
InUnitInterval(x) ==
    /\ x.m = <<>> \/ ~x.neg
    /\ LET d == FloatSub(FloatOfInt(1), x) IN d.m = <<>> \/ ~d.neg

(***************************************************************************)
(* Claims.                                                                 *)
(***************************************************************************)

\* C1: after the load, the Disabled entry of every role is the blend of the colour
\* its (last) recognized line gives with the base colour and the contrast amount of
\* the one DisabledEffectSpec the first loop produced, for the first recognized
\* line and for every later one.
C1_DisabledIsBlendWithEffectSpec ==
    pc = "returned" =>
        \A k \in RoleLines(content) :
            (\A j \in RoleLines(content) : RoleAt(content, j) = RoleAt(content, k) => j <= k)
            => palette[<<"Disabled", RoleAt(content, k)>>] =
                   apply_color_effect(ParseRGB(ValueOf(LineAt(content, k))).val,
                                      EffectSpec(content).color,
                                      EffectSpec(content).amount)

\* C1, for the first recognized line alone: its Disabled entry is that blend.
C1_FirstRoleLineBlend ==
    (pc = "role_pass" /\ RoleLines(content) # {} /\ i > Maximum(RoleLines(content))
        /\ Cardinality(RoleLines(content)) = 1) =>
        LET k == Maximum(RoleLines(content)) IN
        palette[<<"Disabled", RoleAt(content, k)>>] =
            apply_color_effect(ParseRGB(ValueOf(LineAt(content, k))).val,
                               EffectSpec(content).color, EffectSpec(content).amount)

\* C2: in the first loop no line outside a [ColorEffects:Disabled] section changes
\* the DisabledEffectSpec: a step leaves the base colour as it is unless the line
\* it reads is a Color line whose most recent header is [ColorEffects:Disabled],
\* and the contrast amount unless it is such a ContrastAmount line; lines before
\* the header and lines under a later section change neither.
C2_OnlyDisabledSectionLinesSetSpec ==
    [][pc = "disabled_pass" =>
        /\ i \notin DisabledSectionLines(content, "Color")
              => disabled_color' = disabled_color
        /\ i \notin DisabledSectionLines(content, "ContrastAmount")
              => disabled_contrast_amount' = disabled_contrast_amount]_vars

\* C2 witness: the first loop has ended on a text in which a Color line lies
\* under the section that follows [ColorEffects:Disabled] and another one lies
\* before that header, with the base colour still the default.
C2_Witness ==
    /\ pc = "role_pass" /\ i = 1
    /\ disabled_color = DefaultDisabledColor
    /\ \E h, t, k \in 1..Len(content) :
          /\ h < t /\ t < k
          /\ IsDisabledHeader(LineAt(content, h))
          /\ IsHeader(LineAt(content, t)) /\ ~IsDisabledHeader(LineAt(content, t))
          /\ LastHeaderBefore(content, k) = t
          /\ IsKeyLine(LineAt(content, k))
          /\ KeyOf(LineAt(content, k)) = Chars["Color"]
          /\ \E b \in 1..(h - 1) : IsKeyLine(LineAt(content, b))
                                   /\ KeyOf(LineAt(content, b)) = Chars["Color"]

\* C10 as claimed: the first loop follows the two-state machine to the end of the
\* input, so the final DisabledEffectSpec holds the value of the last Color line
\* and of the last ContrastAmount line whose most recent header is
\* [ColorEffects:Disabled], also under a second such header.
C10_SpecFollowsStateMachine ==
    (pc = "role_pass" /\ i = 1) =>
        /\ disabled_color = LastColor(content, DisabledSectionLines(content, "Color"))
        /\ disabled_contrast_amount =
               LastAmount(content, DisabledSectionLines(content, "ContrastAmount"))

\* C10 amended: the first loop stops at the end of the first
\* [ColorEffects:Disabled] section, so the final DisabledEffectSpec holds the value
\* of the last Color line and of the last ContrastAmount line of that first section
\* (the default when it has none); a later [ColorEffects:Disabled] section is not read.
C10_SpecFromFirstSection ==
    (pc = "role_pass" /\ i = 1) =>
        /\ disabled_color = LastColor(content, FirstSectionLines(content, "Color"))
        /\ disabled_contrast_amount =
               LastAmount(content, FirstSectionLines(content, "ContrastAmount"))

\* C10 witness: the first loop has ended on a text with two Color lines in its
\* first [ColorEffects:Disabled] section, and the base colour is the second one's.
C10_Witness ==
    /\ pc = "role_pass" /\ i = 1
    /\ Cardinality(FirstSectionLines(content, "Color")) = 2
    /\ disabled_color = <<9, 8, 7>>
    /\ \E k \in FirstSectionLines(content, "Color") :
          ParseRGB(ValueOf(LineAt(content, k))).val = <<100, 100, 100>>

\* a recognized line whose value is not exactly three comma-separated integers
MalformedRoleLine(text, k) ==
    RoleAt(text, k) # "None" /\ ~ParseRGB(ValueOf(LineAt(text, k))).ok

\* a Color or ContrastAmount line of the first [ColorEffects:Disabled] section
\* whose value does not parse
MalformedEffectLine(text, k) ==
    \/ k \in FirstSectionLines(text, "Color") /\ ~ParseRGB(ValueOf(LineAt(text, k))).ok
    \/ k \in FirstSectionLines(text, "ContrastAmount")
       /\ ~ParseFloat(ValueOf(LineAt(text, k))).ok

\* C3: when the text has no [ColorEffects:Disabled] line the contrast amount is the
\* default 0.0 and, during the second loop and at return, every role that has a
\* Normal entry has a Disabled entry with the same colour.
C3_NoDisabledSectionDisabledEqualsNormal ==
    (\A k \in 1..Len(content) : ~IsDisabledHeader(LineAt(content, k))) =>
        /\ FloatIsInt(disabled_contrast_amount, 0)
        /\ \A r \in MappedRoles :
              <<"Normal", r>> \in DOMAIN palette =>
                  /\ <<"Disabled", r>> \in DOMAIN palette
                  /\ palette[<<"Disabled", r>>] = palette[<<"Normal", r>>]

\* C3 witness: a load without a [ColorEffects:Disabled] section has returned with
\* two roles of different colours set, Button among them.
C3_Witness ==
    /\ pc = "returned"
    /\ \A k \in 1..Len(content) : ~IsDisabledHeader(LineAt(content, k))
    /\ <<"Disabled", "Button">> \in DOMAIN palette
    /\ <<"Disabled", "WindowText">> \in DOMAIN palette
    /\ palette[<<"Disabled", "Button">>] = <<200, 200, 200>>
    /\ palette[<<"Disabled", "WindowText">>] = <<30, 30, 31>>

\* C4: in every state of the load each role of section_role_mapping has a Normal
\* entry iff it has an Inactive entry iff it has a Disabled entry, its Normal and
\* Inactive entries are the same colour, and once the second loop has passed a
\* recognized line (at return: every recognized line) that line's role has all three.
C4_GroupsSetTogether ==
    /\ \A r \in MappedRoles :
          /\ <<"Normal", r>> \in DOMAIN palette <=> <<"Inactive", r>> \in DOMAIN palette
          /\ <<"Normal", r>> \in DOMAIN palette <=> <<"Disabled", r>> \in DOMAIN palette
          /\ <<"Normal", r>> \in DOMAIN palette =>
                 palette[<<"Normal", r>>] = palette[<<"Inactive", r>>]
    /\ pc \in {"role_pass", "returned"} =>
          \A k \in RoleLines(content) :
              (k < i \/ pc = "returned") => HasAllGroups(palette, RoleAt(content, k))

\* C4 witness: the second loop is between two recognized lines, the first one's
\* role set in the three groups and the second one's not yet set.
C4_Witness ==
    /\ pc = "role_pass"
    /\ \E k \in RoleLines(content) : k < i /\ HasAllGroups(palette, RoleAt(content, k))
    /\ \E k \in RoleLines(content) :
          k >= i /\ <<"Normal", RoleAt(content, k)>> \notin DOMAIN palette

\* C8: the load returns a palette or fails, never both.  It fails, before it reads
\* a line, when the resource cannot be opened; it never gets past a recognized line
\* whose value is not exactly three integers, it has failed only at such a line (or
\* at an unparsable Color or ContrastAmount line of the first
\* [ColorEffects:Disabled] section), and it has returned only when no recognized
\* line is malformed; once it has failed it takes no further step.
C8_ReturnsOrFails ==
    /\ ~readable => pc \in {"open", "raised"} /\ palette = PresetPalette({})
    /\ pc = "role_pass" => \A k \in 1..(i - 1) : ~MalformedRoleLine(content, k)
    /\ pc = "returned" =>
          readable /\ \A k \in 1..Len(content) : ~MalformedRoleLine(content, k)
    /\ (pc = "raised" /\ readable) =>
          MalformedRoleLine(content, i) \/ MalformedEffectLine(content, i)
    /\ pc = "raised" => ~ENABLED Next

\* C8 witness: the load has failed at a malformed recognized line that follows a
\* valid recognized line.
C8_Witness ==
    /\ pc = "raised" /\ readable
    /\ MalformedRoleLine(content, i)
    /\ \E k \in RoleLines(content) : k < i /\ HasAllGroups(palette, RoleAt(content, k))

\* C5: for source and effect colours with channels in 0..255,
\* apply_color_effect(source, effect, 0.0) is the source colour and
\* apply_color_effect(source, effect, 1.0) is the effect colour.
C5_BlendBoundaries ==
    pc = "called" =>
        /\ FloatIsInt(call.contrast_amount, 0) => call.result = call.source
        /\ FloatIsInt(call.contrast_amount, 1) => call.result = call.effect_base

\* C5 witness: a call with amount 1.0 and one with amount 0.0 on different colours.
C5_Witness ==
    /\ pc = "called"
    /\ call.source # call.effect_base
    /\ call.source[1] = MaxChannel
    /\ FloatIsInt(call.contrast_amount, 1)
    /\ call.result = call.effect_base

\* C6: for a colour c with channels in 0..255 and an amount in [0, 1],
\* apply_color_effect(c, c, amount) is c.
C6_SelfBlendIsNoOp ==
    (pc = "called" /\ call.source = call.effect_base
        /\ InUnitInterval(call.contrast_amount)) => call.result = call.source

\* C7: the fallback calculations leave every entry that has a colour as it is, add
\* entries only for Light, Dark, Midlight, Mid and Shadow, each only when the role
\* had no colour; a Midlight they set is the floor average of the Light and Button
\* colours after the fallback, a Mid of the Dark and Button ones, a Shadow is
\* (0, 0, 0); and when Button and Window have a colour all five roles have one at
\* return.
C7_FallbackFillsOnlyAbsentRoles ==
    [][(pc = "role_pass" /\ pc' = "returned") =>
        /\ \A gr \in DOMAIN palette : gr \in DOMAIN palette' /\ palette'[gr] = palette[gr]
        /\ \A gr \in (DOMAIN palette') \ (DOMAIN palette) :
              gr[2] \in DerivedRoles /\ ~color(palette, gr[2]).valid
        /\ ~color(palette, "Midlight").valid =>
              \A g \in Groups : \A ch \in 1..3 :
                  palette'[<<g, "Midlight">>][ch] =
                      (color(palette', "Light").rgb[ch] + color(palette', "Button").rgb[ch]) \div 2
        /\ ~color(palette, "Mid").valid =>
              \A g \in Groups : \A ch \in 1..3 :
                  palette'[<<g, "Mid">>][ch] =
                      (color(palette', "Dark").rgb[ch] + color(palette', "Button").rgb[ch]) \div 2
        /\ ~color(palette, "Shadow").valid =>
              \A g \in Groups : palette'[<<g, "Shadow">>] = <<0, 0, 0>>
        /\ (color(palette, "Button").valid /\ color(palette, "Window").valid) =>
              \A r \in DerivedRoles : HasAllGroups(palette', r)
      ]_vars

\* C7 witness: the load has returned on a text that sets Button and Window and
\* nothing else, from a palette without derived roles: the five are set, Light to
\* white, Midlight to the floor average (227, 227, 227), Shadow to (0, 0, 0).
C7_Witness ==
    /\ pc = "returned"
    /\ {RoleAt(content, k) : k \in RoleLines(content)} = {"Button", "Window"}
    /\ \A r \in DerivedRoles : HasAllGroups(palette, r)
    /\ palette[<<"Normal", "Light">>] = <<255, 255, 255>>
    /\ palette[<<"Normal", "Midlight">>] = <<227, 227, 227>>
    /\ palette[<<"Normal", "Shadow">>] = <<0, 0, 0>>

\* C7 witness of the other case: the application supplied Midlight, and the load
\* returned it unchanged next to a derived Shadow.
C7_WitnessPreset ==
    /\ pc = "returned"
    /\ palette[<<"Normal", "Midlight">>] = AppColor
    /\ palette[<<"Normal", "Shadow">>] = <<0, 0, 0>>
    /\ <<"Normal", "Button">> \in DOMAIN palette

\* a header of a section the loader reads: one of section_role_mapping, or
\* [ColorEffects:Disabled]
UnrecognizedHeader(text, k) ==
    /\ IsHeader(LineAt(text, k))
    /\ HeaderName(LineAt(text, k)) \notin DOMAIN section_role_mapping
    /\ ~IsDisabledHeader(LineAt(text, k))

\* a key=value line that sets no role and is no Color or ContrastAmount line under
\* [ColorEffects:Disabled]
UnrecognizedKeyLine(text, k) ==
    /\ IsKeyLine(LineAt(text, k))
    /\ RoleAt(text, k) = "None"
    /\ k \notin DisabledSectionLines(text, "Color")
    /\ k \notin DisabledSectionLines(text, "ContrastAmount")

\* a key=value line whose (section, key) is not in section_role_mapping
UnmappedKeyLine(text, k) == IsKeyLine(LineAt(text, k)) /\ RoleAt(text, k) = "None"

\* a header whose section is not in section_role_mapping
UnmappedHeader(text, k) ==
    /\ IsHeader(LineAt(text, k))
    /\ HeaderName(LineAt(text, k)) \notin DOMAIN section_role_mapping

\* the text without its unrecognized headers and key lines (a key line under an
\* unrecognized header is an unrecognized key line)
RECURSIVE WithoutUnrecognized(_, _)
WithoutUnrecognized(text, k) ==
    IF k > Len(text) THEN <<>>
    ELSE IF UnrecognizedHeader(text, k) \/ UnrecognizedKeyLine(text, k)
    THEN WithoutUnrecognized(text, k + 1)
    ELSE <<text[k]>> \o WithoutUnrecognized(text, k + 1)

RECURSIVE WithoutUnmapped(_, _)
WithoutUnmapped(text, k) ==
    IF k > Len(text) THEN <<>>
    ELSE IF UnmappedHeader(text, k) \/ UnmappedKeyLine(text, k)
    THEN WithoutUnmapped(text, k + 1)
    ELSE <<text[k]>> \o WithoutUnmapped(text, k + 1)

\* the entries of the roles of section_role_mapping
MappedEntries(p) == [gr \in {x \in DOMAIN p : x[2] \in MappedRoles} |-> p[gr]]

\* the load ends on the text as it ends on the reduced text: it fails on both or
\* returns on both, with the same entries for the mapped roles
SameOutcome(reduced) ==
    LET r == Parse(reduced) IN
    /\ (pc = "raised" /\ readable) => r.error
    /\ pc = "returned" => ~r.error /\ MappedEntries(palette) = MappedEntries(r.palette)

\* an unrecognized header between two [ColorEffects:Disabled] headers
SplitsDisabledSection(text) ==
    \E h1, x, h2 \in 1..Len(text) :
        /\ h1 < x /\ x < h2
        /\ IsDisabledHeader(LineAt(text, h1))
        /\ UnrecognizedHeader(text, x)
        /\ IsDisabledHeader(LineAt(text, h2))

\* C9 as claimed, the Color and ContrastAmount lines of [ColorEffects:Disabled]
\* taken as recognized: the load fails at no unrecognized key line, and it ends on
\* the text as it ends on the text without its unrecognized sections and key lines,
\* Disabled entries included.
C9_UnrecognizedLinesIgnorable ==
    /\ (pc = "raised" /\ readable) => ~UnrecognizedKeyLine(content, i)
    /\ pc \in {"raised", "returned"} => SameOutcome(WithoutUnrecognized(content, 1))

\* C9 read to the letter, every (section, key) outside section_role_mapping
\* unrecognized, [ColorEffects:Disabled] and its keys too.
C9_UnmappedLinesIgnorable ==
    /\ (pc = "raised" /\ readable) => ~UnmappedKeyLine(content, i)
    /\ pc \in {"raised", "returned"} => SameOutcome(WithoutUnmapped(content, 1))

\* C9 amended: with the Color and ContrastAmount lines of [ColorEffects:Disabled]
\* counted as recognized, the load fails at no unrecognized key line; and when no
\* unrecognized header lies between two [ColorEffects:Disabled] headers, it ends on
\* the text as it ends on the text without its unrecognized sections and key lines,
\* Disabled entries included.
C9_UnrecognizedLinesIgnorableUnlessSplit ==
    /\ (pc = "raised" /\ readable) => ~UnrecognizedKeyLine(content, i)
    /\ (pc \in {"raised", "returned"} /\ ~SplitsDisabledSection(content))
          => SameOutcome(WithoutUnrecognized(content, 1))

\* C9 witness: the load has returned on a text with a contrast amount from
\* [ColorEffects:Disabled], an unrecognized section with a key line, and a role
\* line before which a key line lies under no header; the role's Disabled entry is
\* the blend (164, 164, 164).
C9_Witness ==
    /\ pc = "returned"
    /\ ~SplitsDisabledSection(content)
    /\ \E x, k \in 1..Len(content) :
          /\ UnrecognizedHeader(content, x)
          /\ UnrecognizedKeyLine(content, k) /\ LastHeaderBefore(content, k) = x
    /\ <<"Disabled", "Button">> \in DOMAIN palette
    /\ palette[<<"Disabled", "Button">>] = <<164, 164, 164>>
    /\ Len(WithoutUnrecognized(content, 1)) < Len(content)

====
